---- MODULE Spec2Model ----
(***************************************************************************)
(* Retail Management System backend (rms_backend.py).                      *)
(*                                                                         *)
(* The committed contents of the products, sales and sale_items tables,    *)
(* the InnoDB row locks on product rows, and the per-request SQLAlchemy    *)
(* sessions of the handlers that run create_sale.  One action per handler  *)
(* or, where a handler can block on a row lock or has its statements       *)
(* interleaved with other requests, one action per statement group.        *)
(*                                                                         *)
(* Columns that no handler reads in a condition (name, reorder_level,      *)
(* supplier_id, customer_id, updated_at) are not part of the state.        *)
(***************************************************************************)
EXTENDS Integers, Sequences, FiniteSets, TLC

\* ------------------------------------------------------------------ bounds
MaxStock == 5      \* largest quantity_available a product is given
MaxQty == 3        \* largest quantity one request item asks for
MaxLen == 2        \* longest item list of one request
MaxSales == 2      \* sale rows ever inserted
MaxDay == 1        \* calendar days 0..MaxDay

Txs == {"t1", "t2"}            \* concurrent POST /api/sales workers
ProductIds == {1, 2}           \* primary keys the products table may hold
NoTx == "none"

\* ------------------------------------------------------------- variables
VARIABLES
    products,             \* committed products table: id -> row
    sales,                \* committed sales table: id -> row
    sale_items,           \* committed sale_items table, in insert order
    next_sale_id,         \* AUTO_INCREMENT of sales.id
    lock,                 \* product id -> transaction holding the row lock
    pc,                   \* position of each create_new_sale worker
    items,                \* sale_data.items of each worker's request
    idx,                  \* index of the item the loop is at
    session,              \* identity map of the worker's Session: id -> Product
    products_to_update,   \* list of (product id, quantity)
    line_items_data,      \* list of line item dicts
    subtotal_cents,       \* running subtotal of the worker
    new_sale,             \* the flushed, uncommitted Sale row of the worker
    result,               \* HTTP status of the worker's last call, 0 while running
    del_pc, del_pid,      \* delete_product worker: position and path parameter
    response,             \* last response of the single-statement handlers
    summary,              \* body of the last sales-summary response
    now,                  \* datetime.now(), in instants
    stock0,               \* quantity_available of each product in the initial state
    next_product_id       \* AUTO_INCREMENT of products.id

vars == <<products, sales, sale_items, next_sale_id, next_product_id, lock, pc, items, idx, session,
          products_to_update, line_items_data, subtotal_cents, new_sale, result,
          del_pc, del_pid, response, summary, now, stock0>>

committed == <<products, sales, sale_items, next_product_id>>
saleVars == <<pc, items, idx, session, products_to_update, line_items_data,
              subtotal_cents, new_sale, result>>
otherVars == <<del_pc, del_pid, response, summary, now, stock0>>

\* ------------------------------------------------------------ the tables
NoRow == [exists |-> FALSE, sku |-> 0, unit_price_cents |-> 0, quantity_available |-> 0]

Product(sku, price, qty) ==
    [exists |-> TRUE, sku |-> sku, unit_price_cents |-> price, quantity_available |-> qty]

SaleItemBase(pid, q) == [product_id |-> pid, quantity |-> q]

NoSale == [id |-> 0, subtotal_cents |-> 0, tax_cents |-> 0, total_cents |-> 0, created_at |-> 0]

EmptySession == [p \in ProductIds |-> NoRow]

\* ------------------------------------------------------------ arithmetic
\* int(x) of Python for the rational n / d, d > 0: truncation toward zero.
IntTrunc(n, d) == IF n >= 0 THEN n \div d ELSE -((-n) \div d)

TaxPercent == 8

\* Mutant: the tax rounded down instead of cut off.
TaxFloor(subtotal) == (subtotal * TaxPercent) \div 100

\* int(subtotal_cents * TAX_RATE).  The double nearest 0.08 times an integer
\* below 2^31 has the integer part of the exact product subtotal * 8 / 100.
Tax(subtotal) == IntTrunc(subtotal * TaxPercent, 100)

\* ------------------------------------------------------- create_sale steps
HeldBy(t) == {p \in ProductIds : lock[p] = t}

Release(t) == [p \in ProductIds |-> IF lock[p] = t THEN NoTx ELSE lock[p]]

InFlight == {t \in Txs : pc[t] # "idle"}

\* Mutant: the handler answers without db.rollback(); the row locks stay.
RollbackKeepsLocks(t, status) ==
    /\ pc' = [pc EXCEPT ![t] = "idle"]
    /\ result' = [result EXCEPT ![t] = status]
    /\ items' = [items EXCEPT ![t] = <<>>]
    /\ session' = [session EXCEPT ![t] = [p \in ProductIds |-> NoRow]]
    /\ products_to_update' = [products_to_update EXCEPT ![t] = <<>>]
    /\ line_items_data' = [line_items_data EXCEPT ![t] = <<>>]
    /\ subtotal_cents' = [subtotal_cents EXCEPT ![t] = 0]
    /\ idx' = [idx EXCEPT ![t] = 1]
    /\ new_sale' = [new_sale EXCEPT ![t] = NoSale]
    /\ UNCHANGED <<committed, next_sale_id, lock>>

\* db.rollback() of create_new_sale and db.close() of get_db after an HTTPException
Rollback(t, status) ==
    /\ pc' = [pc EXCEPT ![t] = "idle"]
    /\ result' = [result EXCEPT ![t] = status]
    /\ items' = [items EXCEPT ![t] = <<>>]
    /\ lock' = Release(t)
    /\ session' = [session EXCEPT ![t] = EmptySession]
    /\ products_to_update' = [products_to_update EXCEPT ![t] = <<>>]
    /\ line_items_data' = [line_items_data EXCEPT ![t] = <<>>]
    /\ subtotal_cents' = [subtotal_cents EXCEPT ![t] = 0]
    /\ idx' = [idx EXCEPT ![t] = 1]
    /\ new_sale' = [new_sale EXCEPT ![t] = NoSale]
    /\ UNCHANGED <<committed, next_sale_id>>

\* The request arrives; lines 217-222.
create_new_sale(t, req) ==
    /\ pc[t] = "idle"
    /\ Cardinality(DOMAIN sales) + Cardinality(InFlight) < MaxSales
    /\ IF req = <<>>
       THEN Rollback(t, 400)
       ELSE /\ items' = [items EXCEPT ![t] = req]
            /\ pc' = [pc EXCEPT ![t] = "loop"]
            /\ result' = [result EXCEPT ![t] = 0]
            /\ idx' = [idx EXCEPT ![t] = 1]
            /\ UNCHANGED <<committed, next_sale_id, lock, session, products_to_update,
                           line_items_data, subtotal_cents, new_sale>>
    /\ UNCHANGED otherVars

\* Mutant: the query without with_for_update() waits for no lock.
CanLockNoWait(t, pid) == TRUE

\* The row lock a locking read needs: SELECT ... FOR UPDATE waits while another
\* transaction holds the row.
CanLock(t, pid) == lock[pid] \in {NoTx, t}

\* The Product object the query returns: the one in the identity map if the
\* session has loaded the row before, else the row as committed.
Loaded(t, pid) == IF session[t][pid].exists THEN session[t][pid] ELSE products[pid]

\* Mutant: the items are visited in an order that differs between workers.
CurrentItemUnordered(t) ==
    IF t = "t1" THEN items[t][idx[t]] ELSE items[t][Len(items[t]) + 1 - idx[t]]

\* for item in sale_data.items: the item the loop is at.
CurrentItem(t) == items[t][idx[t]]

\* One iteration of the loop over sale_data.items; lines 224-250.
loop_item(t) ==
    /\ pc[t] = "loop"
    /\ LET item == CurrentItem(t)
           pid == item.product_id
       IN IF item.quantity <= 0
          THEN Rollback(t, 400)
          ELSE IF ~products[pid].exists
          THEN Rollback(t, 404)
          ELSE /\ CanLock(t, pid)
               /\ LET product == Loaded(t, pid)
                      line_total == product.unit_price_cents * item.quantity
                  IN IF product.quantity_available < item.quantity
                     THEN Rollback(t, 400)
                     ELSE /\ lock' = [lock EXCEPT ![pid] = t]
                          /\ session' = [session EXCEPT ![t][pid] = product]
                          /\ products_to_update' =
                                [products_to_update EXCEPT
                                    ![t] = Append(@, <<pid, item.quantity>>)]
                          /\ subtotal_cents' = [subtotal_cents EXCEPT ![t] = @ + line_total]
                          /\ line_items_data' =
                                [line_items_data EXCEPT ![t] = Append(@,
                                    [product_id |-> pid,
                                     unit_price_cents |-> product.unit_price_cents,
                                     quantity |-> item.quantity,
                                     line_total_cents |-> line_total])]
                          /\ idx' = [idx EXCEPT ![t] = @ + 1]
                          /\ pc' = [pc EXCEPT
                                      ![t] = IF idx[t] = Len(items[t]) THEN "flush" ELSE "loop"]
                          /\ UNCHANGED <<committed, next_sale_id, new_sale, result, items>>
    /\ UNCHANGED otherVars

\* Mutant: the flush of the Sale row commits it (an autocommit session).
flush_sale_autocommit(t) ==
    /\ pc[t] = "flush"
    /\ LET tax_cents == Tax(subtotal_cents[t])
           row == [id |-> next_sale_id,
                   subtotal_cents |-> subtotal_cents[t],
                   tax_cents |-> tax_cents,
                   total_cents |-> subtotal_cents[t] + tax_cents,
                   created_at |-> now]
       IN /\ new_sale' = [new_sale EXCEPT ![t] = row]
          /\ sales' = sales @@ (next_sale_id :> row)
    /\ next_sale_id' = next_sale_id + 1
    /\ pc' = [pc EXCEPT ![t] = "commit"]
    /\ UNCHANGED <<products, sale_items, next_product_id, lock, items, idx, session,
                   products_to_update, line_items_data, subtotal_cents, result, otherVars>>

\* Lines 252-262: the totals, the Sale row and its INSERT inside the transaction.
flush_sale(t) ==
    /\ pc[t] = "flush"
    /\ LET tax_cents == Tax(subtotal_cents[t])
       IN new_sale' = [new_sale EXCEPT ![t] =
                          [id |-> next_sale_id,
                           subtotal_cents |-> subtotal_cents[t],
                           tax_cents |-> tax_cents,
                           total_cents |-> subtotal_cents[t] + tax_cents,
                           created_at |-> now]]
    /\ next_sale_id' = next_sale_id + 1
    /\ pc' = [pc EXCEPT ![t] = "commit"]
    /\ UNCHANGED <<committed, lock, items, idx, session, products_to_update,
                   line_items_data, subtotal_cents, result, otherVars>>

\* Mutant: each decrement starts from the quantity as loaded, so of two items
\* of one product only the last one counts.
DecrementFromLoaded(objs, updates) ==
    [p \in ProductIds |->
        LET at == {i \in 1..Len(updates) : updates[i][1] = p}
        IN IF at = {} THEN objs[p]
           ELSE [objs[p] EXCEPT !.quantity_available =
                    @ - updates[CHOOSE i \in at : \A j \in at : j <= i][2]]]

\* The quantity_available of the session's Product objects after lines 268-270.
RECURSIVE Decrement(_, _)
Decrement(objs, updates) ==
    IF updates = <<>> THEN objs
    ELSE LET pid == Head(updates)[1]
             quantity_sold == Head(updates)[2]
         IN Decrement([objs EXCEPT ![pid].quantity_available = @ - quantity_sold],
                      Tail(updates))

SaleItems(t) ==
    [i \in 1..Len(line_items_data[t]) |->
        [sale_id |-> new_sale[t].id,
         product_id |-> line_items_data[t][i].product_id,
         unit_price_cents |-> line_items_data[t][i].unit_price_cents,
         quantity |-> line_items_data[t][i].quantity,
         line_total_cents |-> line_items_data[t][i].line_total_cents]]

\* The UPDATE of a dirty Product writes the changed column only.
Written(t, objs) ==
    [p \in ProductIds |->
        IF objs[p].exists /\ objs[p].quantity_available # session[t][p].quantity_available
        THEN [products[p] EXCEPT !.quantity_available = objs[p].quantity_available]
        ELSE products[p]]

\* Lines 264-272 and db.commit() of create_new_sale: the sale items and the
\* decrements are flushed and everything becomes visible at once.
commit_sale(t) ==
    /\ pc[t] = "commit"
    /\ LET objs == Decrement(session[t], products_to_update[t])
       IN products' = Written(t, objs)
    /\ sales' = sales @@ (new_sale[t].id :> new_sale[t])
    /\ sale_items' = sale_items \o SaleItems(t)
    /\ lock' = Release(t)
    /\ pc' = [pc EXCEPT ![t] = "idle"]
    /\ result' = [result EXCEPT ![t] = 201]
    /\ session' = [session EXCEPT ![t] = EmptySession]
    /\ products_to_update' = [products_to_update EXCEPT ![t] = <<>>]
    /\ line_items_data' = [line_items_data EXCEPT ![t] = <<>>]
    /\ subtotal_cents' = [subtotal_cents EXCEPT ![t] = 0]
    /\ idx' = [idx EXCEPT ![t] = 1]
    /\ new_sale' = [new_sale EXCEPT ![t] = NoSale]
    /\ items' = [items EXCEPT ![t] = <<>>]
    /\ UNCHANGED <<next_sale_id, next_product_id, otherVars>>

\* ------------------------------------------------- product endpoints
Unset == <<>>                  \* a field the ProductUpdate body leaves out
Set(v) == <<v>>                \* a field the body sets to v

Respond(op, status) == response' = [op |-> op, status |-> status]

\* POST /api/products; lines 296-306.
create_product(sku, price, qty) ==
    /\ IF \E p \in ProductIds : products[p].exists /\ products[p].sku = sku
       THEN /\ Respond("create_product", 400)
            /\ UNCHANGED <<products, next_product_id>>
       ELSE /\ next_product_id \in ProductIds
            /\ products' = [products EXCEPT ![next_product_id] = Product(sku, price, qty)]
            /\ next_product_id' = next_product_id + 1
            /\ Respond("create_product", 201)
    /\ UNCHANGED <<sales, sale_items, next_sale_id, lock, saleVars,
                   del_pc, del_pid, summary, now, stock0>>

\* GET /api/products/{id}; lines 325-330: the status of the response.
get_product(product_id) == IF products[product_id].exists THEN 200 ELSE 404

\* GET /api/products; lines 315-319: the ids of the listed rows.
get_products == {p \in ProductIds : products[p].exists}

\* Mutant: the sale items of a product follow its price.
RepricedItems(product_id, price) ==
    [i \in 1..Len(sale_items) |->
        IF sale_items[i].product_id = product_id /\ price # <<>>
        THEN [sale_items[i] EXCEPT !.unit_price_cents = price[1],
                                   !.line_total_cents = price[1] * sale_items[i].quantity]
        ELSE sale_items[i]]

update_product_repricing(product_id, price, qty) ==
    /\ products[product_id].exists
    /\ lock[product_id] = NoTx
    /\ products' = [products EXCEPT
                       ![product_id].unit_price_cents = IF price = <<>> THEN @ ELSE price[1],
                       ![product_id].quantity_available = IF qty = <<>> THEN @ ELSE qty[1]]
    /\ sale_items' = RepricedItems(product_id, price)
    /\ response' = [op |-> "update_product", status |-> 200]
    /\ UNCHANGED <<sales, next_sale_id, next_product_id, lock, saleVars,
                   del_pc, del_pid, summary, now, stock0>>

\* The row after the setattr calls of update_product.
Patched(row, price, qty) ==
    [row EXCEPT !.unit_price_cents = IF price = Unset THEN @ ELSE price[1],
                !.quantity_available = IF qty = Unset THEN @ ELSE qty[1]]

\* PUT /api/products/{id}; lines 333-346.  The UPDATE waits for the row lock.
update_product(product_id, price, qty) ==
    /\ IF ~products[product_id].exists
       THEN /\ Respond("update_product", 404)
            /\ UNCHANGED products
       ELSE /\ Patched(products[product_id], price, qty) # products[product_id]
                 => lock[product_id] = NoTx
            /\ products' = [products EXCEPT ![product_id] = Patched(@, price, qty)]
            /\ Respond("update_product", 200)
    /\ UNCHANGED <<sales, sale_items, next_sale_id, next_product_id, lock, saleVars,
                   del_pc, del_pid, summary, now, stock0>>

Referenced(product_id) ==
    \E i \in 1..Len(sale_items) : sale_items[i].product_id = product_id

\* DELETE /api/products/{id}; lines 358-366: the two queries.
delete_product(product_id) ==
    /\ del_pc = "idle"
    /\ IF ~products[product_id].exists
       THEN /\ Respond("delete_product", 404)
            /\ UNCHANGED <<del_pc, del_pid>>
       ELSE IF Referenced(product_id)
       THEN /\ Respond("delete_product", 400)
            /\ UNCHANGED <<del_pc, del_pid>>
       ELSE /\ del_pc' = "delete"
            /\ del_pid' = product_id
            /\ UNCHANGED response
    /\ UNCHANGED <<committed, next_sale_id, lock, saleVars, summary, now, stock0>>

\* Lines 368-376: db.delete, db.commit.  The DELETE waits for the row lock; the
\* foreign key sale_items.product_id rejects it when a sale item has been
\* committed for the product since the query, and the handler answers 500.
delete_commit ==
    /\ del_pc = "delete"
    /\ lock[del_pid] = NoTx
    /\ IF Referenced(del_pid)
       THEN /\ Respond("delete_product", 500)
            /\ UNCHANGED products
       ELSE /\ products' = [products EXCEPT ![del_pid] = NoRow]
            /\ Respond("delete_product", 204)
    /\ del_pc' = "idle"
    /\ del_pid' = 0
    /\ UNCHANGED <<sales, sale_items, next_sale_id, next_product_id, lock, saleVars,
                   summary, now, stock0>>

\* -------------------------------------------------------------- reports
Dates == 0..MaxDay

\* Time runs in instants, two to a calendar day: day d consists of the
\* instants 2d, its 00:00:00, and 2d + 1, its 23:59:59.999999.
\* datetime.combine(d, datetime.min.time())
DayStart(d) == 2 * d

\* Mutant: the end of the range is the first instant of to_date.
DayEndAtMidnight(d) == 2 * d

\* datetime.combine(d, datetime.max.time())
DayEnd(d) == 2 * d + 1

\* The rows the filter of lines 483-486 keeps.
InRange(from_datetime, to_datetime) ==
    {id \in DOMAIN sales : /\ sales[id].created_at >= from_datetime
                           /\ sales[id].created_at <= to_datetime}

RECURSIVE SumTotal(_)
SumTotal(ids) ==
    IF ids = {} THEN 0
    ELSE LET id == CHOOSE x \in ids : TRUE
         IN sales[id].total_cents + SumTotal(ids \ {id})

\* GET /api/reports/sales-summary; lines 471-508.
get_sales_summary(from_date, to_date) ==
    /\ LET rows == InRange(DayStart(from_date), DayEnd(to_date))
           total_revenue == SumTotal(rows)
           tx_count == Cardinality(rows)
           avg_order_value == IF tx_count > 0 THEN total_revenue \div tx_count ELSE 0
       IN summary' = [from_date |-> from_date, to_date |-> to_date,
                      total_revenue_cents |-> total_revenue,
                      transaction_count |-> tx_count,
                      average_order_value_cents |-> avg_order_value]
    /\ Respond("sales_summary", 200)
    /\ UNCHANGED <<committed, next_sale_id, lock, saleVars, del_pc, del_pid, now, stock0>>

\* The clock of the server advances.
Tick ==
    /\ now < DayEnd(MaxDay)
    /\ now' = now + 1
    /\ UNCHANGED <<committed, next_sale_id, lock, saleVars, del_pc, del_pid,
                   response, summary, stock0>>

\* ------------------------------------------------------------- requests
RECURSIVE SeqsUpTo(_, _)
SeqsUpTo(S, n) ==
    IF n = 0 THEN {<<>>}
    ELSE LET shorter == SeqsUpTo(S, n - 1)
         IN shorter \cup {Append(s, x) : s \in {r \in shorter : Len(r) = n - 1}, x \in S}

\* -------------------------------------------------------- initial states
InitWorkers ==
    /\ next_sale_id = 1
    /\ sales = <<>>
    /\ sale_items = <<>>
    /\ lock = [p \in ProductIds |-> NoTx]
    /\ pc = [t \in Txs |-> "idle"]
    /\ items = [t \in Txs |-> <<>>]
    /\ idx = [t \in Txs |-> 1]
    /\ session = [t \in Txs |-> EmptySession]
    /\ products_to_update = [t \in Txs |-> <<>>]
    /\ line_items_data = [t \in Txs |-> <<>>]
    /\ subtotal_cents = [t \in Txs |-> 0]
    /\ new_sale = [t \in Txs |-> NoSale]
    /\ result = [t \in Txs |-> 0]
    /\ del_pc = "idle"
    /\ del_pid = 0
    /\ response = [op |-> "none", status |-> 0]
    /\ summary = [from_date |-> 0, to_date |-> 0, total_revenue_cents |-> 0,
                  transaction_count |-> 0, average_order_value_cents |-> 0]
    /\ now = 0
    /\ stock0 = [p \in ProductIds |-> products[p].quantity_available]

\* ------------------------------------------------ sales only: SalesSpec
\* Both products in stock; item lists of existing products and positive
\* quantities, the same product allowed in more than one item.
SalesItems == {SaleItemBase(1, 1), SaleItemBase(1, MaxQty), SaleItemBase(2, 1)}

SalesRequests == SeqsUpTo(SalesItems, MaxLen) \ {<<>>}

SalesInit ==
    /\ products = [p \in ProductIds |-> Product(p, 1000, IF p = 1 THEN MaxStock ELSE 1)]
    /\ next_product_id = 3
    /\ InitWorkers

SalesBegin == \E t \in Txs, req \in SalesRequests : create_new_sale(t, req)
SalesLoop == \E t \in Txs : loop_item(t)
SalesFlush == \E t \in Txs : flush_sale(t)
SalesCommit == \E t \in Txs : commit_sale(t)

SalesNext == SalesBegin \/ SalesLoop \/ SalesFlush \/ SalesCommit

SalesSpec == SalesInit /\ [][SalesNext]_vars

\* ------------------------------------------- failing calls: ErrorSpec
\* Product 2 does not exist; item lists with quantities 0 and above, the
\* empty list included.
ErrorItems ==
    {SaleItemBase(1, 0), SaleItemBase(1, 1), SaleItemBase(1, MaxQty), SaleItemBase(2, 1)}

Requests == SeqsUpTo(ErrorItems, MaxLen)

ErrorInit ==
    /\ products = [p \in ProductIds |-> IF p = 1 THEN Product(1, 1000, MaxStock) ELSE NoRow]
    /\ next_product_id = 2
    /\ InitWorkers

ErrorBegin == \E t \in Txs, req \in Requests : create_new_sale(t, req)

ErrorNext == ErrorBegin \/ SalesLoop \/ SalesFlush \/ SalesCommit

ErrorSpec == ErrorInit /\ [][ErrorNext]_vars

\* ------------------------------------- the writing handlers: Spec
\* The product endpoints, the delete worker and one sale worker.
PriceSet == {-10, 7}           \* unit_price_cents is any integer of the request body

Init ==
    /\ products = [p \in ProductIds |-> IF p = 1 THEN Product(1, 1000, MaxStock) ELSE NoRow]
    /\ next_product_id = 2
    /\ InitWorkers

SpecRequests ==
    SeqsUpTo({SaleItemBase(1, MaxQty), SaleItemBase(2, 1)}, MaxLen) \ {<<>>}

Begin == \E req \in SpecRequests : create_new_sale("t1", req)
Loop == loop_item("t1")
Flush == flush_sale("t1")
Commit == commit_sale("t1")
CreateProduct == \E sku \in {1, 2}, price \in PriceSet : create_product(sku, price, 1)
UpdateProduct ==
    \E p \in ProductIds, price \in {Unset} \cup {Set(v) : v \in PriceSet},
       qty \in {Unset, Set(0)} :
        update_product(p, price, qty)
DeleteProduct == \E p \in ProductIds : delete_product(p)
DeleteCommit == delete_commit

Next ==
    \/ Begin \/ Loop \/ Flush \/ Commit
    \/ CreateProduct \/ UpdateProduct \/ DeleteProduct \/ DeleteCommit

Spec == Init /\ [][Next]_vars

\* --------------------------------- two calls on one product: RaceSpec
\* Each worker makes one call, for the same quantity q of product 1, with
\* q <= stock < 2q.
RaceQty ==
    IF Len(sale_items) > 0 THEN {sale_items[1].quantity}
    ELSE IF \E t \in Txs : items[t] # <<>>
    THEN {items[t][1].quantity : t \in {u \in Txs : items[u] # <<>>}}
    ELSE {q \in 1..stock0[1] : 2 * q > stock0[1]}

RaceInit ==
    /\ products \in [ProductIds -> {Product(1, 1000, q) : q \in 1..MaxStock}]
    /\ next_product_id = 3
    /\ InitWorkers

RaceBegin ==
    \E t \in Txs, q \in RaceQty :
        /\ result[t] = 0
        /\ create_new_sale(t, <<SaleItemBase(1, q)>>)

RaceNext == RaceBegin \/ SalesLoop \/ SalesFlush \/ SalesCommit

RaceSpec == RaceInit /\ [][RaceNext]_vars

\* ------------------------- items in ascending product id: SortedSpec
IsSorted(req) ==
    \A i \in 1..Len(req), j \in 1..Len(req) :
        i < j => req[i].product_id <= req[j].product_id

SortedRequests == {req \in SalesRequests : IsSorted(req)}

SortedBegin == \E t \in Txs, req \in SortedRequests : create_new_sale(t, req)

SortedNext == SortedBegin \/ SalesLoop \/ SalesFlush \/ SalesCommit

\* A worker that runs keeps running, and InnoDB grants a row lock to its
\* waiters in turn: a waiter is not passed over forever.
SortedFair ==
    \A t \in Txs : SF_vars(loop_item(t)) /\ WF_vars(flush_sale(t)) /\ WF_vars(commit_sale(t))

SortedSpec == SalesInit /\ [][SortedNext]_vars /\ SortedFair

\* -------------------------------------------- sales over time: ReportSpec
ReportRequests == {<<SaleItemBase(1, q)>> : q \in {1, MaxQty}}

ReportPrices == {-7, 7}        \* totals whose sums do not divide evenly

ReportInit ==
    /\ products \in {[p \in ProductIds |-> IF p = 1 THEN Product(1, price, MaxStock) ELSE NoRow] :
                        price \in ReportPrices}
    /\ next_product_id = 2
    /\ InitWorkers

ReportBegin == \E req \in ReportRequests : create_new_sale("t1", req)
ReportLoop == loop_item("t1")
ReportFlush == flush_sale("t1")
ReportCommit == commit_sale("t1")
ReportSummarize ==
    \E from_date \in Dates, to_date \in Dates : get_sales_summary(from_date, to_date)

ReportNext ==
    ReportBegin \/ ReportLoop \/ ReportFlush \/ ReportCommit \/ ReportSummarize \/ Tick

ReportSpec == ReportInit /\ [][ReportNext]_vars

\* ================================================================ claims
\* ------------------------------------------------------------- helpers
RECURSIVE SumSeq(_)
SumSeq(s) == IF s = <<>> THEN 0 ELSE Head(s) + SumSeq(Tail(s))

\* The committed sale items that reference product p, and of sale id.
ItemsOf(p) == SelectSeq(sale_items, LAMBDA it : it.product_id = p)
ItemsOfSale(id) == SelectSeq(sale_items, LAMBDA it : it.sale_id = id)
Quantities(its) == [i \in 1..Len(its) |-> its[i].quantity]
LineTotals(its) == [i \in 1..Len(its) |-> its[i].line_total_cents]
Sold(p) == SumSeq(Quantities(ItemsOf(p)))

\* The sale items a step appends, and the quantity of product p among them.
AddedItems == SubSeq(sale_items', Len(sale_items) + 1, Len(sale_items'))
AddedQuantity(p) ==
    SumSeq(Quantities(SelectSeq(AddedItems, LAMBDA it : it.product_id = p)))

\* ------------------------------------------------------------------ C1
\* C1: in every reachable state every product's quantity_available is >= 0,
\* whatever item lists the CreateSale calls carry, the same product id in
\* more than one item included.  (Checked under SalesSpec.)
StockNonNegative == \A p \in ProductIds : products[p].quantity_available >= 0

\* ------------------------------------------------------------------ C2
\* Both calls have answered.
RaceSettled == \A t \in Txs : pc[t] = "idle" /\ result[t] # 0

\* C2: of two concurrent CreateSale calls for quantity q of one product with
\* stock S, q <= S < 2q, exactly one succeeds, the other fails with 400 and
\* the stock ends as S - q; while one call holds the row lock from its read to
\* its commit the other has not read the row.  (Checked under RaceSpec.)
RaceOneWins ==
    /\ RaceSettled =>
          /\ \E t \in Txs, u \in Txs : t # u /\ result[t] = 201 /\ result[u] = 400
          /\ Len(sale_items) = 1
          /\ products[1].quantity_available = stock0[1] - sale_items[1].quantity
    /\ \A t \in Txs, u \in Txs : t # u /\ lock[1] = t => ~session[u][1].exists

\* Stock 5, both calls for 3: both have answered and the stock is 2.
RaceOneWinsWitness ==
    /\ RaceSettled
    /\ stock0[1] = 5
    /\ Len(sale_items) = 1
    /\ sale_items[1].quantity = 3
    /\ products[1].quantity_available = 2

\* ------------------------------------------------------------------ C3
\* The step in which the call of worker t fails.
FailedStep(t) ==
    /\ pc'[t] = "idle"
    /\ result'[t] \in {400, 404}
    /\ pc[t] = "loop" \/ create_new_sale(t, <<>>)

\* A failing call changes no table and leaves no lock with the worker.
FailsCleanly(t) ==
    FailedStep(t) =>
        /\ UNCHANGED <<products, sales, sale_items>>
        /\ \A p \in ProductIds : /\ lock'[p] # t
                                 /\ lock[p] # t => lock'[p] = lock[p]

\* The item the loop is at fails the call when it is invalid.
RejectsItem(t) ==
    loop_item(t) =>
        LET item == items[t][idx[t]]
            row == products[item.product_id]
        IN /\ item.quantity <= 0 => pc'[t] = "idle" /\ result'[t] = 400
           /\ item.quantity > 0 /\ ~row.exists => pc'[t] = "idle" /\ result'[t] = 404
           /\ item.quantity > 0 /\ row.exists /\ item.quantity > row.quantity_available
                 => pc'[t] = "idle" /\ result'[t] = 400

RejectsEmpty(t) == create_new_sale(t, <<>>) => pc'[t] = "idle" /\ result'[t] = 400

\* C3: a CreateSale call that fails leaves products, sales and sale_items as
\* they were and holds no row lock afterwards; the empty list and a quantity
\* <= 0 fail with 400, a missing product with 404, a quantity above the
\* product's quantity_available with 400, at whichever position of the list.
\* (Checked under ErrorSpec.)
FailureLeavesNoTrace ==
    [][\A t \in Txs : FailsCleanly(t) /\ RejectsItem(t) /\ RejectsEmpty(t)]_vars

\* One worker has failed a call; the other holds the lock of its first item
\* and is about to fail on its second, with a sale already committed.
FailureLeavesNoTraceWitness ==
    \E t \in Txs, u \in Txs :
        /\ t # u
        /\ pc[t] = "idle" /\ result[t] \in {400, 404}
        /\ pc[u] = "loop" /\ idx[u] = 2 /\ lock[1] = u
        /\ ~products[items[u][2].product_id].exists
        /\ DOMAIN sales # {}

\* ------------------------------------------------------------------ C4
\* The line totals, the subtotal and the total of the committed sale id.
SaleAddsUp(id) ==
    /\ \A i \in 1..Len(ItemsOfSale(id)) :
          ItemsOfSale(id)[i].line_total_cents =
              ItemsOfSale(id)[i].unit_price_cents * ItemsOfSale(id)[i].quantity
    /\ sales[id].subtotal_cents = SumSeq(LineTotals(ItemsOfSale(id)))
    /\ sales[id].total_cents = sales[id].subtotal_cents + sales[id].tax_cents

\* tax = floor(subtotal * 8 / 100)
IsFloorTax(subtotal, tax) ==
    tax * 100 <= subtotal * 8 /\ subtotal * 8 < (tax + 1) * 100

\* tax = subtotal * 8 / 100 cut off toward zero
IsTruncatedTax(subtotal, tax) ==
    IF subtotal >= 0 THEN IsFloorTax(subtotal, tax)
    ELSE tax * 100 >= subtotal * 8 /\ subtotal * 8 > (tax - 1) * 100

\* The committing call writes one item per input item, in order, at the price
\* the product has while the call holds its lock.
ItemsAsRequested(t) ==
    commit_sale(t) =>
        /\ Len(AddedItems) = Len(items[t])
        /\ \A i \in 1..Len(items[t]) :
              /\ AddedItems[i].product_id = items[t][i].product_id
              /\ AddedItems[i].quantity = items[t][i].quantity
              /\ AddedItems[i].unit_price_cents =
                    products[items[t][i].product_id].unit_price_cents

\* C4 as claimed: every committed sale has line_total_cents = unit_price_cents
\* * quantity on each item, the price being the product's under the row lock,
\* subtotal_cents the sum of the line totals over the input items in order,
\* tax_cents = floor(subtotal_cents * 8 / 100) and total_cents = subtotal_cents
\* + tax_cents.  (Checked under Spec.)
SalePricedFloor ==
    /\ [](\A id \in DOMAIN sales :
            SaleAddsUp(id) /\ IsFloorTax(sales[id].subtotal_cents, sales[id].tax_cents))
    /\ [][\A t \in Txs : ItemsAsRequested(t)]_vars

\* C4 as amended: the same, with tax_cents = subtotal_cents * 8 / 100 cut off
\* toward zero, which is the floor when subtotal_cents >= 0.
SalePricedTruncated ==
    /\ [](\A id \in DOMAIN sales :
            SaleAddsUp(id) /\ IsTruncatedTax(sales[id].subtotal_cents, sales[id].tax_cents))
    /\ [][\A t \in Txs : ItemsAsRequested(t)]_vars

\* Price 1000, stock 5, one item of quantity 3: 3000, 240, 3240, stock 2.
SalePricedWitness ==
    \E id \in DOMAIN sales :
        /\ Len(ItemsOfSale(id)) = 1
        /\ ItemsOfSale(id)[1].product_id = 1
        /\ ItemsOfSale(id)[1].quantity = 3
        /\ sales[id].subtotal_cents = 3000
        /\ sales[id].tax_cents = 240
        /\ sales[id].total_cents = 3240
        /\ products[1].quantity_available = 2

\* ------------------------------------------------------------------ C5
\* A step that adds one Sale, all of its SaleItems and exactly their decrements.
CommitsOneSale ==
    \E id \in DOMAIN sales' \ DOMAIN sales :
        /\ DOMAIN sales' = DOMAIN sales \cup {id}
        /\ \A old \in DOMAIN sales : sales'[old] = sales[old]
        /\ Len(sale_items') > Len(sale_items)
        /\ SubSeq(sale_items', 1, Len(sale_items)) = sale_items
        /\ \A i \in 1..Len(AddedItems) : AddedItems[i].sale_id = id
        /\ SumSeq(LineTotals(AddedItems)) = sales'[id].subtotal_cents
        /\ \A p \in ProductIds :
              products'[p] = [products[p] EXCEPT
                                 !.quantity_available = @ - AddedQuantity(p)]

\* Every committed Sale has SaleItems, every committed SaleItem its Sale, and
\* the flushed Sale row of a running call is not committed.
SalesWhole ==
    /\ \A id \in DOMAIN sales : \E i \in 1..Len(sale_items) : sale_items[i].sale_id = id
    /\ \A i \in 1..Len(sale_items) : sale_items[i].sale_id \in DOMAIN sales
    /\ \A t \in Txs : pc[t] = "commit" => new_sale[t].id \notin DOMAIN sales

\* C5: the effects of one CreateSale call become visible together or not at
\* all: every step leaves the committed tables alone or adds one Sale with all
\* its SaleItems and exactly their stock decrements, and no committed state
\* holds a Sale without items, an item without its Sale, or the flushed Sale
\* row of a running call.  (Checked under SalesSpec.)
VisibleTogether ==
    /\ []SalesWhole
    /\ [][UNCHANGED <<products, sales, sale_items>> \/ CommitsOneSale]_vars

\* A Sale row is flushed and uncommitted while another sale is committed.
VisibleTogetherWitness ==
    \E t \in Txs : /\ pc[t] = "commit"
                   /\ new_sale[t].id \notin DOMAIN sales
                   /\ DOMAIN sales # {}

\* ------------------------------------------------------------------ C6
\* C6: a committed sale never changes: every step of every handler keeps
\* every committed Sale row and every committed SaleItem row as it is, also
\* when the product's price is updated afterwards.  (Checked under Spec.)
SalesImmutable ==
    [][/\ \A id \in DOMAIN sales : id \in DOMAIN sales' /\ sales'[id] = sales[id]
       /\ Len(sale_items') >= Len(sale_items)
       /\ SubSeq(sale_items', 1, Len(sale_items)) = sale_items]_vars

\* A sale item of the 3000 sale whose product has a different price by now.
SalesImmutableWitness ==
    \E i \in 1..Len(sale_items) :
        /\ products[sale_items[i].product_id].exists
        /\ products[sale_items[i].product_id].unit_price_cents # sale_items[i].unit_price_cents
        /\ sales[sale_items[i].sale_id].subtotal_cents = 3000

\* ------------------------------------------------------------------ C7
\* The answer of the handler's queries for product p.
DeleteAnswers(p) ==
    delete_product(p) =>
        /\ ~products[p].exists =>
              response' = [op |-> "delete_product", status |-> 404] /\ products' = products
        /\ products[p].exists /\ Referenced(p) =>
              response' = [op |-> "delete_product", status |-> 400] /\ products' = products
        /\ products[p].exists /\ ~Referenced(p) => del_pc' = "delete" /\ del_pid' = p

\* The delete of a product the queries found unreferenced succeeds.
DeleteSucceeds ==
    delete_commit =>
        /\ response' = [op |-> "delete_product", status |-> 204]
        /\ \A p \in ProductIds : p = del_pid => p \notin get_products' /\ get_product(p)' = 404

\* C7: delete_product of a product some SaleItem references answers 400 and
\* keeps the product; of an existing product no SaleItem references it
\* succeeds, and the product is gone from get_products and get_product
\* answers 404; of a missing id it answers 404 and changes nothing.
\* (Checked under Spec.)
DeleteGuarded == [][DeleteSucceeds /\ \A p \in ProductIds : DeleteAnswers(p)]_vars

\* What the handler does: its DELETE answers 500 and keeps the product when a
\* sale of the product has committed since its queries.
DeleteSucceedsOrFaults ==
    delete_commit =>
        IF Referenced(del_pid)
        THEN response' = [op |-> "delete_product", status |-> 500] /\ products' = products
        ELSE /\ response' = [op |-> "delete_product", status |-> 204]
             /\ \A p \in ProductIds :
                   p = del_pid => p \notin get_products' /\ get_product(p)' = 404

DeleteGuardedOrFaults ==
    [][DeleteSucceedsOrFaults /\ \A p \in ProductIds : DeleteAnswers(p)]_vars

\* ------------------------------------------------------------------ C8
\* Worker t waits for a row lock that worker u holds.
Waits(t, u) ==
    /\ pc[t] = "loop"
    /\ CurrentItem(t).quantity > 0
    /\ products[CurrentItem(t).product_id].exists
    /\ lock[CurrentItem(t).product_id] = u

\* Two workers wait for each other.  Reachable under SalesSpec, where the
\* item lists come in any order.
LockCycle == \E t \in Txs, u \in Txs : t # u /\ Waits(t, u) /\ Waits(u, t)

\* A worker holds the locks of exactly the items its loop has passed.
LocksInItemOrder ==
    \A t \in Txs : HeldBy(t) = {items[t][i].product_id : i \in 1..(idx[t] - 1)}

\* C8: a worker takes the row locks in input item order and holds them until
\* its commit or rollback; when every call lists its items in ascending
\* product id no two workers wait for each other, and under fair scheduling
\* every call that has started answers.  (Checked under SortedSpec.)
SortedCallsFinish ==
    /\ [](~LockCycle /\ LocksInItemOrder)
    /\ \A t \in Txs : (pc[t] # "idle") ~> (pc[t] = "idle" /\ result[t] \in {201, 400, 404})

\* One worker holds both locks of its list and the other waits for the first.
SortedCallsFinishWitness ==
    \E t \in Txs, u \in Txs :
        /\ t # u
        /\ Waits(t, u)
        /\ HeldBy(u) = {1, 2}

\* ------------------------------------------------------------------ C9
\* The calendar day of an instant.
DayOf(instant) == instant \div 2

\* The committed sales created on a day from from_date to to_date.
OnDays(from_date, to_date) ==
    {id \in DOMAIN sales : /\ from_date <= DayOf(sales[id].created_at)
                           /\ DayOf(sales[id].created_at) <= to_date}

Revenue(ids) ==
    SumSeq([id \in 1..(next_sale_id - 1) |-> IF id \in ids THEN sales[id].total_cents ELSE 0])

IsFloorOf(avg, total, count) == avg * count <= total /\ total < (avg + 1) * count

SummaryOf(from_date, to_date) ==
    get_sales_summary(from_date, to_date) =>
        LET counted == OnDays(from_date, to_date)
        IN /\ summary'.from_date = from_date /\ summary'.to_date = to_date
           /\ summary'.transaction_count = Cardinality(counted)
           /\ summary'.total_revenue_cents = Revenue(counted)
           /\ IF counted = {}
              THEN summary'.average_order_value_cents = 0
              ELSE IsFloorOf(summary'.average_order_value_cents,
                             Revenue(counted), Cardinality(counted))
           /\ from_date > to_date =>
                 /\ summary'.total_revenue_cents = 0
                 /\ summary'.transaction_count = 0
                 /\ summary'.average_order_value_cents = 0
           /\ UNCHANGED <<products, sales, sale_items>>

\* C9: the summary of (from_date, to_date) counts the committed sales whose
\* created_at lies from the start of from_date to the last instant of to_date,
\* sums their total_cents, gives the floor of the quotient as the average and
\* 0, 0, 0 when there is none (from_date after to_date included), and changes
\* no table.  (Checked under ReportSpec.)
SummaryRight ==
    [][\A from_date \in Dates, to_date \in Dates : SummaryOf(from_date, to_date)]_vars

\* A summary of day 0 alone that counts one of two committed sales, the
\* counted one created at the last instant of day 0.
SummaryRightWitness ==
    /\ Cardinality(DOMAIN sales) = 2
    /\ summary.from_date = 0 /\ summary.to_date = 0
    /\ summary.transaction_count = 1
    /\ \E id \in DOMAIN sales : sales[id].created_at = DayEnd(0)

\* ----------------------------------------------------------------- C10
\* C10: under CreateSale calls only, for every product quantity_available
\* plus the quantities of the committed sale items that reference it equals
\* its initial quantity_available.  (Checked under SalesSpec.)
StockConserved ==
    \A p \in ProductIds : products[p].quantity_available + Sold(p) = stock0[p]

\* Both workers have committed a sale of the same product.
StockConservedWitness ==
    \E p \in ProductIds :
        Cardinality({ItemsOf(p)[i].sale_id : i \in 1..Len(ItemsOf(p))}) = 2

====
